---- MODULE Spec2Model ----
(***************************************************************************)
(* describegraph_parser.py: one run of main().  A JSON graph document is   *)
(* loaded and projected into nodes_ln.csv, channels_ln.csv, edges_ln.csv.  *)
(*                                                                         *)
(* A JSON object (Python dict) is a function whose domain is the set of    *)
(* keys it carries; a JSON array (list) is a sequence; a JSON string is a  *)
(* string.  The value of a policy key is tagged, because it may be null    *)
(* or an object.  A CSV file is the sequence of the rows written to it,    *)
(* each row the tuple of its fields.                                       *)
(***************************************************************************)
EXTENDS Integers, Sequences, FiniteSets, TLC

VARIABLES
    pc,          \* position of main()
    input,       \* the file at args.json_file: [kind, doc]
    pre,         \* what args.output held before the run
    dir_exists,  \* os.path.exists(args.output)
    files,       \* the three CSV paths under args.output
    syscalls,    \* file-system calls made so far, in order
    stdout,      \* lines printed so far
    data,        \* main: data
    nodes_data,  \* main: nodes_data
    edges_data,  \* main: edges_data
    idx          \* 1-based position of the running for loop

vars == <<pc, input, pre, dir_exists, files, syscalls, stdout, data,
          nodes_data, edges_data, idx>>

(***************************************************************************)
(* Bounds of the explored inputs.                                          *)
(***************************************************************************)
MaxNodes == 2
MaxEdges == 2

(***************************************************************************)
(* Python / JSON values.                                                   *)
(***************************************************************************)
EmptyDict == <<>>
EmptyList == <<>>

JNull == [t |-> "null"]
JObj(o) == [t |-> "obj", o |-> o]

\* d.get(k, default)
Get(d, k, default) == IF k \in DOMAIN d THEN d[k] ELSE default

\* bool(d) of a dict: an empty dict is falsy
\* (TruthyAlways: the check of line 122 dropped)
TruthyAlways(d) == TRUE
Truthy(d) == DOMAIN d # {}

\* bool(v) of the value of a policy key: None and {} are falsy
PolicyTruthy(v) == v.t = "obj" /\ DOMAIN v.o # {}

\* policy.get(k, '0'), once the policy is known to be truthy
PolicyGet(v, k) == Get(v.o, k, "0")

SeqsUpTo(S, n) == UNION {[1..m -> S] : m \in 0..n}

RECURSIVE Flatten(_)
Flatten(ss) == IF ss = <<>> THEN <<>> ELSE Head(ss) \o Flatten(Tail(ss))

(***************************************************************************)
(* The files and their headers.                                            *)
(***************************************************************************)
NodesFile == "nodes_ln.csv"
ChannelsFile == "channels_ln.csv"
EdgesFile == "edges_ln.csv"
FileNames == {NodesFile, ChannelsFile, EdgesFile}

NodesHeader == <<"id">>
ChannelsHeader ==
    <<"id", "edge1_id", "edge2_id", "node1_id", "node2_id", "capacity(millisat)">>
EdgesHeader ==
    <<"id", "channel_id", "counter_edge_id", "from_node_id", "to_node_id",
      "balance(millisat)", "fee_base(millisat)", "fee_proportional",
      "min_htlc(millisat)", "timelock">>

NoFile == [exists |-> FALSE, rows |-> <<>>]
StaleFile == [exists |-> TRUE, rows |-> << <<"stale">> >>]

\* (OpenAppend: mode 'a' in place of 'w')
OpenAppend(fs, name, header) ==
    [fs EXCEPT ![name] = [exists |-> TRUE, rows |-> fs[name].rows \o <<header>>]]
\* open(path, 'w') followed by the header's writerow: creates or truncates
OpenW(fs, name, header) ==
    [fs EXCEPT ![name] = [exists |-> TRUE, rows |-> <<header>>]]

\* writer.writerow(row), for each row of rs in turn
WriteRows(fs, name, rs) ==
    [fs EXCEPT ![name] = [exists |-> TRUE, rows |-> fs[name].rows \o rs]]

InitialFiles(p) ==
    [n \in FileNames |-> IF p = "stale" THEN StaleFile ELSE NoFile]

(***************************************************************************)
(* The loop bodies of the three projectors.                                *)
(***************************************************************************)
\* generate_nodes_csv, lines 28-29
NodeRow(node) == <<Get(node, "pub_key", "")>>

\* (ChannelRowSwappedIds: the two suffixes exchanged)
ChannelRowSwappedIds(edge) ==
    LET channel_id == Get(edge, "channel_id", "")
    IN  <<channel_id, channel_id \o "_2", channel_id \o "_1",
          Get(edge, "node1_pub", ""), Get(edge, "node2_pub", ""),
          Get(edge, "capacity", "0")>>
\* generate_channels_csv, lines 40-49
ChannelRow(edge) ==
    LET channel_id == Get(edge, "channel_id", "")
        node1_pub == Get(edge, "node1_pub", "")
        node2_pub == Get(edge, "node2_pub", "")
        capacity == Get(edge, "capacity", "0")
        edge1_id == channel_id \o "_1"
        edge2_id == channel_id \o "_2"
    IN  <<channel_id, edge1_id, edge2_id, node1_pub, node2_pub, capacity>>

\* the row of one direction, as lines 74-85 and 90-101 build it
DirectedRow(id, channel_id, counter, from, to, policy) ==
    <<id, channel_id, counter, from, to, "",
      PolicyGet(policy, "fee_base_msat"),
      PolicyGet(policy, "fee_rate_milli_msat"),
      PolicyGet(policy, "min_htlc"),
      PolicyGet(policy, "time_lock_delta")>>

\* (EdgeRowsSelfCounter: each row names itself as its counter edge)
EdgeRowsSelfCounter(edge) ==
    LET channel_id == Get(edge, "channel_id", "")
        node1_pub == Get(edge, "node1_pub", "")
        node2_pub == Get(edge, "node2_pub", "")
        edge1_id == channel_id \o "_1"
        edge2_id == channel_id \o "_2"
        node1_policy == Get(edge, "node1_policy", JObj(EmptyDict))
        node2_policy == Get(edge, "node2_policy", JObj(EmptyDict))
    IN  (IF PolicyTruthy(node1_policy)
         THEN <<DirectedRow(edge1_id, channel_id, edge1_id, node1_pub, node2_pub,
                            node1_policy)>>
         ELSE <<>>)
        \o
        (IF PolicyTruthy(node2_policy)
         THEN <<DirectedRow(edge2_id, channel_id, edge2_id, node2_pub, node1_pub,
                            node2_policy)>>
         ELSE <<>>)
\* (EdgeRowsNode2First: the two if blocks in the other order)
EdgeRowsNode2First(edge) ==
    LET channel_id == Get(edge, "channel_id", "")
        node1_pub == Get(edge, "node1_pub", "")
        node2_pub == Get(edge, "node2_pub", "")
        edge1_id == channel_id \o "_1"
        edge2_id == channel_id \o "_2"
        node1_policy == Get(edge, "node1_policy", JObj(EmptyDict))
        node2_policy == Get(edge, "node2_policy", JObj(EmptyDict))
    IN  (IF PolicyTruthy(node2_policy)
         THEN <<DirectedRow(edge2_id, channel_id, edge1_id, node2_pub, node1_pub,
                            node2_policy)>>
         ELSE <<>>)
        \o
        (IF PolicyTruthy(node1_policy)
         THEN <<DirectedRow(edge1_id, channel_id, edge2_id, node1_pub, node2_pub,
                            node1_policy)>>
         ELSE <<>>)
\* generate_edges_csv, lines 64-101: the rows written for one channel
EdgeRows(edge) ==
    LET channel_id == Get(edge, "channel_id", "")
        node1_pub == Get(edge, "node1_pub", "")
        node2_pub == Get(edge, "node2_pub", "")
        edge1_id == channel_id \o "_1"
        edge2_id == channel_id \o "_2"
        node1_policy == Get(edge, "node1_policy", JObj(EmptyDict))
        node2_policy == Get(edge, "node2_policy", JObj(EmptyDict))
    IN  (IF PolicyTruthy(node1_policy)
         THEN <<DirectedRow(edge1_id, channel_id, edge2_id, node1_pub, node2_pub,
                            node1_policy)>>
         ELSE <<>>)
        \o
        (IF PolicyTruthy(node2_policy)
         THEN <<DirectedRow(edge2_id, channel_id, edge1_id, node2_pub, node1_pub,
                            node2_policy)>>
         ELSE <<>>)

\* (EdgePoliciesWritten: the rows really written, counted)
EdgePoliciesWritten(edges) ==
    Len(Flatten([k \in 1..Len(edges) |-> EdgeRows(edges[k])]))
\* generate_edges_csv, line 103: the count printed in the summary
EdgePoliciesReported(edges) == Len(edges) * 2

Line(msg, n) == [msg |-> msg, n |-> n]

(***************************************************************************)
(* The explored inputs: node, policy and channel records of the shapes the *)
(* projectors read, with keys present or absent.                           *)
(***************************************************************************)
NodeRecords == {EmptyDict, [pub_key |-> "A"], [pub_key |-> "B"]}

FullPolicy ==
    JObj([fee_base_msat |-> "1", fee_rate_milli_msat |-> "10",
          min_htlc |-> "1000", time_lock_delta |-> "40"])
BasePolicy == JObj([fee_base_msat |-> "2", min_htlc |-> "3"])
LockPolicy == JObj([time_lock_delta |-> "144"])
EmptyPolicy == JObj(EmptyDict)

ChannelRecords ==
    { \* both directions advertised
      [channel_id |-> "c1", node1_pub |-> "A", node2_pub |-> "B",
       capacity |-> "500", node1_policy |-> FullPolicy, node2_policy |-> FullPolicy],
      \* only node1's policy
      [channel_id |-> "c2", node1_pub |-> "A", node2_pub |-> "B",
       capacity |-> "500", node1_policy |-> FullPolicy],
      \* node1's policy null, node2's with two sub-fields
      [channel_id |-> "c1", node1_pub |-> "B", node2_pub |-> "A",
       capacity |-> "7", node1_policy |-> JNull, node2_policy |-> BasePolicy],
      \* no policy key, no capacity
      [channel_id |-> "c2", node1_pub |-> "A", node2_pub |-> "B"],
      \* no key at all
      EmptyDict,
      \* node1's policy an object without sub-fields
      [channel_id |-> "c2", node1_pub |-> "A", node2_pub |-> "B",
       capacity |-> "500", node1_policy |-> EmptyPolicy, node2_policy |-> FullPolicy],
      \* no channel_id, no node2_pub, no capacity
      [node1_pub |-> "A", node1_policy |-> LockPolicy, node2_policy |-> FullPolicy],
      \* empty channel_id
      [channel_id |-> "", node1_pub |-> "A", node2_pub |-> "B",
       capacity |-> "0", node1_policy |-> FullPolicy] }

\* a parsed document: any of the keys nodes, edges, and one the tool ignores
Documents ==
    { [k \in ks |-> CASE k = "nodes" -> ns [] k = "edges" -> es [] OTHER -> "x"] :
        ks \in SUBSET {"nodes", "edges", "version"},
        ns \in SeqsUpTo(NodeRecords, MaxNodes),
        es \in SeqsUpTo(ChannelRecords, MaxEdges) }

Inputs ==
    {[kind |-> "missing", doc |-> EmptyDict], [kind |-> "invalid", doc |-> EmptyDict]}
    \cup {[kind |-> "ok", doc |-> d] : d \in Documents}

Init ==
    /\ pc = "start"
    /\ input \in Inputs
    /\ pre \in {"nodir", "empty", "stale"}
    /\ dir_exists = (pre # "nodir")
    /\ files = InitialFiles(pre)
    /\ syscalls = <<>>
    /\ stdout = <<>>
    /\ data = EmptyDict
    /\ nodes_data = EmptyList
    /\ edges_data = EmptyList
    /\ idx = 0

(***************************************************************************)
(* main(), lines 114-117.                                                  *)
(***************************************************************************)
\* (EnsureOutputDirSkipped: lines 115-117 left out)
EnsureOutputDirSkipped ==
    /\ pc = "start"
    /\ pc' = "load"
    /\ UNCHANGED <<input, pre, dir_exists, files, syscalls, stdout, data,
                   nodes_data, edges_data, idx>>
EnsureOutputDir ==
    /\ pc = "start"
    /\ IF ~dir_exists
       THEN /\ dir_exists' = TRUE
            /\ syscalls' = Append(syscalls, "makedirs")
            /\ stdout' = Append(stdout, Line("created_output_dir", 0))
       ELSE UNCHANGED <<dir_exists, syscalls, stdout>>
    /\ pc' = "load"
    /\ UNCHANGED <<input, pre, files, data, nodes_data, edges_data, idx>>

(***************************************************************************)
(* load_json_data(), lines 9-19, called at line 120.                       *)
(***************************************************************************)
LoadJson ==
    /\ pc = "load"
    /\ input.kind = "ok"
    /\ data' = input.doc
    /\ syscalls' = Append(syscalls, "open_r")
    /\ pc' = "check"
    /\ UNCHANGED <<input, pre, dir_exists, files, stdout, nodes_data, edges_data, idx>>

LoadFileNotFound ==
    /\ pc = "load"
    /\ input.kind = "missing"
    /\ data' = EmptyDict
    /\ syscalls' = Append(syscalls, "open_r")
    /\ stdout' = Append(stdout, Line("error_not_found", 0))
    /\ pc' = "check"
    /\ UNCHANGED <<input, pre, dir_exists, files, nodes_data, edges_data, idx>>

LoadJSONDecodeError ==
    /\ pc = "load"
    /\ input.kind = "invalid"
    /\ data' = EmptyDict
    /\ syscalls' = Append(syscalls, "open_r")
    /\ stdout' = Append(stdout, Line("error_decode", 0))
    /\ pc' = "check"
    /\ UNCHANGED <<input, pre, dir_exists, files, nodes_data, edges_data, idx>>

(***************************************************************************)
(* main(), lines 122-130.                                                  *)
(***************************************************************************)
AbortRun ==
    /\ pc = "check"
    /\ ~Truthy(data)
    /\ stdout' = Append(stdout, Line("error_load_failed", 0))
    /\ pc' = "aborted"
    /\ UNCHANGED <<input, pre, dir_exists, files, syscalls, data, nodes_data,
                   edges_data, idx>>

GetSections ==
    /\ pc = "check"
    /\ Truthy(data)
    /\ nodes_data' = Get(data, "nodes", EmptyList)
    /\ edges_data' = Get(data, "edges", EmptyList)
    /\ stdout' = Append(stdout, Line("loaded", Len(nodes_data') + Len(edges_data')))
    /\ pc' = "nodes_open"
    /\ UNCHANGED <<input, pre, dir_exists, files, syscalls, data, idx>>

(***************************************************************************)
(* generate_nodes_csv(), lines 21-31, called at line 138.                  *)
(***************************************************************************)
NodesOpen ==
    /\ pc = "nodes_open"
    /\ files' = OpenW(files, NodesFile, NodesHeader)
    /\ syscalls' = Append(syscalls, "open_w:" \o NodesFile)
    /\ idx' = 1
    /\ pc' = "nodes_loop"
    /\ UNCHANGED <<input, pre, dir_exists, stdout, data, nodes_data, edges_data>>

NodesRow ==
    /\ pc = "nodes_loop"
    /\ idx <= Len(nodes_data)
    /\ files' = WriteRows(files, NodesFile, <<NodeRow(nodes_data[idx])>>)
    /\ idx' = idx + 1
    /\ UNCHANGED <<pc, input, pre, dir_exists, syscalls, stdout, data, nodes_data,
                   edges_data>>

NodesClose ==
    /\ pc = "nodes_loop"
    /\ idx > Len(nodes_data)
    /\ stdout' = Append(stdout, Line("generated_nodes", Len(nodes_data)))
    /\ pc' = "channels_open"
    /\ UNCHANGED <<input, pre, dir_exists, files, syscalls, data, nodes_data,
                   edges_data, idx>>

(***************************************************************************)
(* generate_channels_csv(), lines 33-51, called at line 139.               *)
(***************************************************************************)
ChannelsOpen ==
    /\ pc = "channels_open"
    /\ files' = OpenW(files, ChannelsFile, ChannelsHeader)
    /\ syscalls' = Append(syscalls, "open_w:" \o ChannelsFile)
    /\ idx' = 1
    /\ pc' = "channels_loop"
    /\ UNCHANGED <<input, pre, dir_exists, stdout, data, nodes_data, edges_data>>

ChannelsRow ==
    /\ pc = "channels_loop"
    /\ idx <= Len(edges_data)
    /\ files' = WriteRows(files, ChannelsFile, <<ChannelRow(edges_data[idx])>>)
    /\ idx' = idx + 1
    /\ UNCHANGED <<pc, input, pre, dir_exists, syscalls, stdout, data, nodes_data,
                   edges_data>>

ChannelsClose ==
    /\ pc = "channels_loop"
    /\ idx > Len(edges_data)
    /\ stdout' = Append(stdout, Line("generated_channels", Len(edges_data)))
    /\ pc' = "edges_open"
    /\ UNCHANGED <<input, pre, dir_exists, files, syscalls, data, nodes_data,
                   edges_data, idx>>

(***************************************************************************)
(* generate_edges_csv(), lines 53-103, called at line 140.                 *)
(***************************************************************************)
EdgesOpen ==
    /\ pc = "edges_open"
    /\ files' = OpenW(files, EdgesFile, EdgesHeader)
    /\ syscalls' = Append(syscalls, "open_w:" \o EdgesFile)
    /\ idx' = 1
    /\ pc' = "edges_loop"
    /\ UNCHANGED <<input, pre, dir_exists, stdout, data, nodes_data, edges_data>>

EdgesRow ==
    /\ pc = "edges_loop"
    /\ idx <= Len(edges_data)
    /\ files' = WriteRows(files, EdgesFile, EdgeRows(edges_data[idx]))
    /\ idx' = idx + 1
    /\ UNCHANGED <<pc, input, pre, dir_exists, syscalls, stdout, data, nodes_data,
                   edges_data>>

EdgesClose ==
    /\ pc = "edges_loop"
    /\ idx > Len(edges_data)
    /\ stdout' = Append(stdout, Line("generated_edge_policies",
                                     EdgePoliciesReported(edges_data)))
    /\ pc' = "finish"
    /\ UNCHANGED <<input, pre, dir_exists, files, syscalls, data, nodes_data,
                   edges_data, idx>>

(***************************************************************************)
(* main(), line 142.                                                       *)
(***************************************************************************)
Finish ==
    /\ pc = "finish"
    /\ stdout' = Append(stdout, Line("all_generated", 0))
    /\ pc' = "done"
    /\ UNCHANGED <<input, pre, dir_exists, files, syscalls, data, nodes_data,
                   edges_data, idx>>

Next ==
    \/ EnsureOutputDir
    \/ LoadJson
    \/ LoadFileNotFound
    \/ LoadJSONDecodeError
    \/ AbortRun
    \/ GetSections
    \/ NodesOpen
    \/ NodesRow
    \/ NodesClose
    \/ ChannelsOpen
    \/ ChannelsRow
    \/ ChannelsClose
    \/ EdgesOpen
    \/ EdgesRow
    \/ EdgesClose
    \/ Finish

Spec == Init /\ [][Next]_vars

(***************************************************************************)
(* Vocabulary of the properties.                                           *)
(***************************************************************************)
Range(s) == {s[i] : i \in 1..Len(s)}

Written(name) == ("open_w:" \o name) \in Range(syscalls)

Terminated == pc \in {"done", "aborted"}

DocNodes == Get(input.doc, "nodes", EmptyList)
DocEdges == Get(input.doc, "edges", EmptyList)

NodesRowsOut == files[NodesFile].rows
ChannelsRowsOut == files[ChannelsFile].rows
EdgesRowsOut == files[EdgesFile].rows

\* how many elements the running or finished loop of a projector has handled
Handled(loop, after, all) ==
    IF pc = loop THEN idx - 1 ELSE IF pc \in after THEN Len(all) ELSE 0

AfterNodes == {"channels_open", "channels_loop", "edges_open", "edges_loop",
               "finish", "done"}
AfterChannels == {"edges_open", "edges_loop", "finish", "done"}
AfterEdges == {"finish", "done"}

\* the record carries the key, whatever its value
Has(rec, key) == key \in DOMAIN rec

Field(rec, key, absent) == IF Has(rec, key) THEN rec[key] ELSE absent

PolicyKeys == {"node1_policy", "node2_policy"}

\* the channel carries the key with a policy object, whatever its sub-fields
PolicyPresent(edge, key) == Has(edge, key) /\ edge[key].t = "obj"

\* the channel carries the key with a policy object that has a sub-field
PolicyNonEmpty(edge, key) == PolicyPresent(edge, key) /\ DOMAIN edge[key].o # {}

PoliciesPresent(edge) == Cardinality({key \in PolicyKeys : PolicyPresent(edge, key)})

RECURSIVE SumPoliciesPresent(_)
SumPoliciesPresent(edges) ==
    IF edges = <<>> THEN 0
    ELSE PoliciesPresent(Head(edges)) + SumPoliciesPresent(Tail(edges))

RECURSIVE IsSubseq(_, _)
IsSubseq(s, t) ==
    IF s = <<>> THEN TRUE
    ELSE IF t = <<>> THEN FALSE
    ELSE IF Head(s) = Head(t) THEN IsSubseq(Tail(s), Tail(t))
    ELSE IsSubseq(s, Tail(t))

FailedLoad == input.kind # "ok" /\ pc \notin {"start", "load"}

(***************************************************************************)
(* C1: after a failed load (the input path does not exist, or its content  *)
(* is not valid JSON) the run aborts and no projector runs: none of the    *)
(* three CSV files is opened, created or changed.                          *)
(***************************************************************************)
C1_NoOutputAfterFailedLoad ==
    FailedLoad =>
        /\ pc \in {"check", "aborted"}
        /\ \A n \in FileNames : ~Written(n)
        /\ files = InitialFiles(pre)

C1_Witness ==
    /\ pc = "aborted"
    /\ input.kind = "invalid"
    /\ "error_load_failed" \in {stdout[i].msg : i \in 1..Len(stdout)}

(***************************************************************************)
(* C2: generate_edges_csv writes, for every channel, exactly as many rows  *)
(* as the channel has policies present (0, 1 or 2), a policy being present *)
(* when the channel carries the key with a policy object, whatever its     *)
(* sub-fields: after each channel handled, the rows written so far are as  *)
(* many as the policies present in the channels handled so far.            *)
(***************************************************************************)
C2_RowsEqualPoliciesPresent ==
    pc \in {"edges_loop"} \cup AfterEdges =>
        Len(EdgesRowsOut) - 1 =
            SumPoliciesPresent(
                SubSeq(edges_data, 1, Handled("edges_loop", AfterEdges, edges_data)))

(***************************************************************************)
(* C3, as stated: in the finished edges_ln.csv every row's counter_edge_id *)
(* is the id of another row of the same channel in the file.               *)
(***************************************************************************)
C3_SiblingRowInFile ==
    pc = "done" =>
        \A i \in 2..Len(EdgesRowsOut) :
            \E j \in 2..Len(EdgesRowsOut) :
                /\ j # i
                /\ EdgesRowsOut[j][1] = EdgesRowsOut[i][3]
                /\ EdgesRowsOut[j][2] = EdgesRowsOut[i][2]

(***************************************************************************)
(* C3, amended: every row written to edges_ln.csv has as id its            *)
(* channel_id followed by "_1" or "_2" and as counter_edge_id its          *)
(* channel_id followed by the other suffix, and every row of the file      *)
(* whose id is that counter_edge_id belongs to the same channel_id and     *)
(* names the first row's id as its own counter_edge_id.                    *)
(***************************************************************************)
C3_CounterIsDerivedSibling ==
    pc \in {"edges_loop"} \cup AfterEdges =>
        \A i \in 2..Len(EdgesRowsOut) :
            LET r == EdgesRowsOut[i]
            IN  /\ \/ r[1] = r[2] \o "_1" /\ r[3] = r[2] \o "_2"
                   \/ r[1] = r[2] \o "_2" /\ r[3] = r[2] \o "_1"
                /\ r[3] # r[1]
                /\ \A j \in 2..Len(EdgesRowsOut) :
                       EdgesRowsOut[j][1] = r[3] =>
                           /\ EdgesRowsOut[j][2] = r[2]
                           /\ EdgesRowsOut[j][3] = r[1]

\* a finished file in which one row has its sibling and another has none
C3_Witness ==
    /\ pc = "done"
    /\ \E i, j \in 2..Len(EdgesRowsOut) : EdgesRowsOut[j][1] = EdgesRowsOut[i][3]
    /\ \E i \in 2..Len(EdgesRowsOut) :
           \A j \in 2..Len(EdgesRowsOut) : EdgesRowsOut[j][1] # EdgesRowsOut[i][3]

(***************************************************************************)
(* C4: for every parsed document a missing key nodes or edges, both        *)
(* missing included, counts as an empty sequence and the run goes on to    *)
(* write the three files, each with its header and one row per element.    *)
(***************************************************************************)
C4_MissingKeysProceed ==
    (/\ input.kind = "ok"
     /\ ~({"nodes", "edges"} \subseteq DOMAIN input.doc)
     /\ Terminated) =>
        /\ pc = "done"
        /\ \A n \in FileNames : Written(n)
        /\ NodesRowsOut[1] = NodesHeader
        /\ Len(NodesRowsOut) = 1 + Len(DocNodes)
        /\ ChannelsRowsOut[1] = ChannelsHeader
        /\ Len(ChannelsRowsOut) = 1 + Len(DocEdges)
        /\ EdgesRowsOut[1] = EdgesHeader

C6_OneRowPerChannel ==
    LET n == Handled("channels_loop", AfterChannels, edges_data)
    IN  /\ pc \in {"channels_loop"} \cup AfterChannels =>
            /\ edges_data = DocEdges
            /\ Len(ChannelsRowsOut) = 1 + n
            /\ ChannelsRowsOut[1] = ChannelsHeader
            /\ \A k \in 1..n :
                   LET r == ChannelsRowsOut[k + 1]
                       ch == DocEdges[k]
                   IN  /\ Len(r) = 6
                       /\ r[1] = Field(ch, "channel_id", "")
                       /\ r[2] = r[1] \o "_1"
                       /\ r[3] = r[1] \o "_2"
                       /\ r[4] = Field(ch, "node1_pub", "")
                       /\ r[5] = Field(ch, "node2_pub", "")
                       /\ Has(ch, "capacity") => r[6] = ch["capacity"]
        /\ (input.kind = "ok" /\ Terminated /\ DocEdges # <<>>) => pc = "done"

\* a channel with an empty id, one without policies and both rows written
C6_Witness ==
    /\ pc = "done"
    /\ Len(DocEdges) = 2
    /\ Has(DocEdges[1], "channel_id") /\ DocEdges[1]["channel_id"] = ""
    /\ PoliciesPresent(DocEdges[2]) = 0
    /\ ChannelsRowsOut[2][2] = "_1"
    /\ Len(ChannelsRowsOut) = 3

(***************************************************************************)
(* C7: a missing field never suppresses its row: an absent pub_key gives   *)
(* "", an absent capacity gives "0", and for every policy present, with    *)
(* any subset of its sub-fields absent, a row is written for it in which   *)
(* every absent sub-field is "0".                                          *)
(***************************************************************************)
C7_MissingFieldsDefault ==
    pc = "done" =>
        /\ \A i \in 1..Len(nodes_data) :
               ~Has(nodes_data[i], "pub_key") => NodesRowsOut[i + 1] = <<"">>
        /\ \A k \in 1..Len(edges_data) :
               ~Has(edges_data[k], "capacity") => ChannelsRowsOut[k + 1][6] = "0"
        /\ \A k \in 1..Len(edges_data) :
               \A key \in PolicyKeys :
                   PolicyPresent(edges_data[k], key) =>
                       \E i \in 2..Len(EdgesRowsOut) :
                           LET r == EdgesRowsOut[i]
                               o == edges_data[k][key].o
                           IN  /\ r[2] = Field(edges_data[k], "channel_id", "")
                               /\ r[1] = r[2] \o (IF key = "node1_policy"
                                                  THEN "_1" ELSE "_2")
                               /\ r[7] = Field(o, "fee_base_msat", "0")
                               /\ r[8] = Field(o, "fee_rate_milli_msat", "0")
                               /\ r[9] = Field(o, "min_htlc", "0")
                               /\ r[10] = Field(o, "time_lock_delta", "0")

DirectionHeads(ch) ==
    LET c == Field(ch, "channel_id", "")
        n1 == Field(ch, "node1_pub", "")
        n2 == Field(ch, "node2_pub", "")
    IN  << <<c \o "_1", c, c \o "_2", n1, n2, "">>,
           <<c \o "_2", c, c \o "_1", n2, n1, "">> >>

(***************************************************************************)
(* C8: the rows of edges_ln.csv come in channel input order, and within a  *)
(* channel the node1 row (id edge1_id, counter edge2_id, from node1_pub to *)
(* node2_pub) before the node2 row (id edge2_id, counter edge1_id, from    *)
(* node2_pub to node1_pub), each with the channel_id of its channel and an *)
(* empty balance: the first six fields of the rows written form a          *)
(* subsequence of the list that has, for each channel handled in input     *)
(* order, its node1 row and then its node2 row.                            *)
(***************************************************************************)
C8_EdgeRowsOrdered ==
    pc \in {"edges_loop"} \cup AfterEdges =>
        LET n == Handled("edges_loop", AfterEdges, edges_data)
            heads == [i \in 1..(Len(EdgesRowsOut) - 1) |->
                         SubSeq(EdgesRowsOut[i + 1], 1, 6)]
        IN  /\ edges_data = DocEdges
            /\ EdgesRowsOut[1] = EdgesHeader
            /\ \A i \in 2..Len(EdgesRowsOut) : Len(EdgesRowsOut[i]) = 10
            /\ IsSubseq(heads, Flatten([k \in 1..n |-> DirectionHeads(DocEdges[k])]))

\* two channels, the first with one row and the second with both
C8_Witness ==
    /\ pc = "done"
    /\ Len(DocEdges) = 2
    /\ Len(EdgesRowsOut) = 4
    /\ EdgesRowsOut[2][2] # EdgesRowsOut[3][2]
    /\ EdgesRowsOut[3][4] = EdgesRowsOut[4][5]
    /\ EdgesRowsOut[3][4] # EdgesRowsOut[3][5]

(***************************************************************************)
(* C9: the edge-policy count printed by generate_edges_csv is twice the    *)
(* number of channels, whatever number of rows was written, and it is the  *)
(* number of rows written only when every channel has both policies        *)
(* present (and then as non-empty objects).                                *)
(***************************************************************************)
C9_ReportedTwicePerChannel ==
    \A i \in 1..Len(stdout) :
        stdout[i].msg = "generated_edge_policies" =>
            /\ stdout[i].n = 2 * Len(DocEdges)
            /\ stdout[i].n = Len(EdgesRowsOut) - 1 =>
                   \A k \in 1..Len(DocEdges) :
                       \A key \in PolicyKeys : PolicyNonEmpty(DocEdges[k], key)

\* a summary that reports more edge policies than rows were written
C9_Witness ==
    /\ pc = "done"
    /\ \E i \in 1..Len(stdout) :
           /\ stdout[i].msg = "generated_edge_policies"
           /\ stdout[i].n = 4
           /\ Len(EdgesRowsOut) - 1 = 1

IsOpenW(c) == c \in {"open_w:" \o n : n \in FileNames}

WriteOrder == <<"open_w:" \o NodesFile, "open_w:" \o ChannelsFile,
                "open_w:" \o EdgesFile>>

(***************************************************************************)
(* C10: the output directory exists before the input is read, created by   *)
(* the run when it did not exist, so that a run aborted by a failed load   *)
(* leaves a new directory without CSV files; an existing directory is not  *)
(* created again and keeps its content until a projector opens a file; the *)
(* files are opened for writing in the order nodes_ln.csv,                 *)
(* channels_ln.csv, edges_ln.csv, each complete before the next is opened, *)
(* and a run that ends successfully has opened all three.                  *)
(***************************************************************************)
C10_DirFirstThenFilesInOrder ==
    LET opens == SelectSeq(syscalls, IsOpenW)
    IN  /\ "open_r" \in Range(syscalls) =>
            /\ dir_exists
            /\ pre = "nodir" => syscalls[1] = "makedirs"
        /\ (pc = "aborted" /\ pre = "nodir") =>
               dir_exists /\ \A n \in FileNames : ~files[n].exists
        /\ pre # "nodir" => "makedirs" \notin Range(syscalls)
        /\ opens = <<>> => files = InitialFiles(pre)
        /\ Len(opens) <= 3 /\ opens = SubSeq(WriteOrder, 1, Len(opens))
        /\ Len(opens) >= 2 => Len(NodesRowsOut) = 1 + Len(nodes_data)
        /\ Len(opens) >= 3 => Len(ChannelsRowsOut) = 1 + Len(edges_data)
        /\ pc = "done" => opens = WriteOrder

\* a new directory left without CSV files by an aborted run
C10_Witness ==
    /\ pc = "aborted"
    /\ pre = "nodir"
    /\ input.kind = "missing"
    /\ syscalls = <<"makedirs", "open_r">>

====
